---- MODULE Spec2Model ----
(***************************************************************************)
(* Model of the contest-parser extraction pipeline (src/emitters.go):      *)
(* the row decoders, the four emitters and Parser.GetData.                 *)
(*                                                                         *)
(* Text is modelled as a sequence of one-character strings, so that        *)
(* strconv.Atoi and the comparisons with "OK" are computed, not assumed.   *)
(* Header labels are compared whole and are kept as plain strings.         *)
(***************************************************************************)
EXTENDS Integers, Sequences, FiniteSets, TLC

VARIABLES
    names,      \* header cells handed to a row decoder
    cols,       \* data cells handed to a row decoder
    call,       \* which decoder was called: "none", "problem", "submission"
    decoded,    \* what the decoder returned
    pc,         \* position of Parser.GetData
    cancelled,  \* the run context (main's ctx) has been cancelled
    cancelAt,   \* history: the place in fetchLog of the request that was in
                \* flight when the context was cancelled, 0 if there was none
    req,        \* the requests in flight: started and not yet returned
    fetchLog,   \* every call of http.Client.Do, in order
    he,         \* HrefEmitter fields
    pe,         \* ProblemsEmitter fields
    se,         \* SubmissionsEmitter fields
    sd,         \* StandingsEmitter fields
    page,       \* the response each stage was given (history of the inputs)
    srcIdx,     \* loadSource's position in se.Submissions
    ret,        \* the error GetData returned, NoErr while none
    out         \* what Parser.Run's call of WriteData did: the files it wrote
                \* and the error it returned

decodeVars == <<names, cols, call, decoded>>
runVars == <<pc, cancelled, cancelAt, req, fetchLog, he, pe, se, sd, page, srcIdx, ret, out>>
vars == <<names, cols, call, decoded,
          pc, cancelled, cancelAt, req, fetchLog, he, pe, se, sd, page, srcIdx, ret, out>>

----------------------------------------------------------------------------
(* Bounds of the model *)

\* longest header row and longest data row handed to a decoder
MaxCols == 3
\* most data rows of the Submissions table
MaxRows == 4
\* most data rows of the Submissions table in a whole run of Parser.GetData
MaxRunRows == 3
\* most data rows of the Summary table when ProblemsEmitter.Emit is checked alone
MaxProblemRows == 3
\* most anchors of the action menu when HrefEmitter.Emit is checked alone
MaxAnchors == 3
\* most link[href] elements of a Standings document
MaxLinks == 2

----------------------------------------------------------------------------
(* Text *)

SeqsUpTo(S, n) == UNION {[1..k -> S] : k \in 0..n}

Range(s) == {s[i] : i \in 1..Len(s)}

DigitChars == {"0", "1", "2", "3", "4", "5", "6", "7", "8", "9"}

DigitVal(c) ==
    CASE c = "0" -> 0 [] c = "1" -> 1 [] c = "2" -> 2 [] c = "3" -> 3
      [] c = "4" -> 4 [] c = "5" -> 5 [] c = "6" -> 6 [] c = "7" -> 7
      [] c = "8" -> 8 [] c = "9" -> 9

RECURSIVE DigitsVal(_, _)
DigitsVal(s, acc) ==
    IF s = <<>> THEN acc ELSE DigitsVal(Tail(s), acc * 10 + DigitVal(Head(s)))

\* strconv.Atoi: an optional sign, then one or more decimal digits and nothing
\* else (no blanks are trimmed). On a syntax error the value is 0.  A range
\* error needs more digits than any cell of the model has.
Atoi(s) ==
    LET signed == s # <<>> /\ Head(s) \in {"+", "-"}
        digits == IF signed THEN Tail(s) ELSE s
    IN  IF digits = <<>> \/ \E i \in 1..Len(digits) : digits[i] \notin DigitChars
        THEN [val |-> 0, ok |-> FALSE]
        ELSE [val |-> IF signed /\ Head(s) = "-"
                      THEN 0 - DigitsVal(digits, 0)
                      ELSE DigitsVal(digits, 0),
              ok |-> TRUE]

Empty == <<>>
OKText == <<"O", "K">>

----------------------------------------------------------------------------
(* Errors: Go error values, as records *)

NoErr == [kind |-> "nil"]
ErrDecodeRunID == [kind |-> "decode run id"]

----------------------------------------------------------------------------
(* ProblemsEmitter.decodeProblem *)

Problem0 == [ID |-> Empty, Name |-> Empty, RunID |-> 0, OK |-> FALSE]

DecodeStart(zero) == [res |-> zero, err |-> NoErr, panic |-> FALSE]

\* cols[idx] with idx past the end of cols is a run-time panic
OutOfRange(cs, idx) == idx > Len(cs)

\* the switch without the test of res.OK: the run id is parsed in every row
decodeProblemCaseAlwaysParses(ns, cs, idx, st) ==
    LET name == ns[idx] IN
    CASE name = "Short name" ->
            IF OutOfRange(cs, idx) THEN [st EXCEPT !.panic = TRUE]
            ELSE [st EXCEPT !.res.ID = cs[idx]]
      [] name = "Long name" ->
            IF OutOfRange(cs, idx) THEN [st EXCEPT !.panic = TRUE]
            ELSE [st EXCEPT !.res.Name = cs[idx]]
      [] name = "Status" ->
            IF OutOfRange(cs, idx) THEN [st EXCEPT !.panic = TRUE]
            ELSE [st EXCEPT !.res.OK = (cs[idx] = OKText)]
      [] name = "Run ID" ->
            IF OutOfRange(cs, idx) THEN [st EXCEPT !.panic = TRUE]
            ELSE LET a == Atoi(cs[idx]) IN
                 [st EXCEPT !.res.RunID = a.val,
                            !.err = IF a.ok THEN NoErr ELSE ErrDecodeRunID]
      [] OTHER -> st

\* one iteration of the loop over names: the switch on the header label
decodeProblemCase(ns, cs, idx, st) ==
    LET name == ns[idx] IN
    CASE name = "Short name" ->
            IF OutOfRange(cs, idx) THEN [st EXCEPT !.panic = TRUE]
            ELSE [st EXCEPT !.res.ID = cs[idx]]
      [] name = "Long name" ->
            IF OutOfRange(cs, idx) THEN [st EXCEPT !.panic = TRUE]
            ELSE [st EXCEPT !.res.Name = cs[idx]]
      [] name = "Status" ->
            IF OutOfRange(cs, idx) THEN [st EXCEPT !.panic = TRUE]
            ELSE [st EXCEPT !.res.OK = (cs[idx] = OKText)]
      [] name = "Run ID" ->
            IF ~st.res.OK THEN st
            ELSE IF OutOfRange(cs, idx) THEN [st EXCEPT !.panic = TRUE]
            ELSE LET a == Atoi(cs[idx]) IN
                 [st EXCEPT !.res.RunID = a.val,
                            !.err = IF a.ok THEN NoErr ELSE ErrDecodeRunID]
      [] OTHER -> st

RECURSIVE decodeProblemLoop(_, _, _, _)
decodeProblemLoop(ns, cs, idx, st) ==
    IF idx > Len(ns) \/ st.panic THEN st
    ELSE decodeProblemLoop(ns, cs, idx + 1, decodeProblemCase(ns, cs, idx, st))

\* a decoder that insists on every known column being in the header
decodeProblemRequiresAll(ns, cs) ==
    LET st == decodeProblemLoop(ns, cs, 1, DecodeStart(Problem0)) IN
    IF {"Short name", "Long name", "Status", "Run ID"} \subseteq Range(ns) THEN st
    ELSE [st EXCEPT !.err = [kind |-> "column not found"]]

decodeProblem(ns, cs) == decodeProblemLoop(ns, cs, 1, DecodeStart(Problem0))

----------------------------------------------------------------------------
(* SubmissionsEmitter.decodeSubmission *)

\* a nil *url.URL, and a nil []byte
NoURL ==
    [nil |-> TRUE, abs |-> FALSE, host |-> "", rooted |-> FALSE,
     path |-> <<>>, query |-> <<>>]
NilBytes == [nil |-> TRUE, bytes |-> <<>>]
Bytes(b) == [nil |-> FALSE, bytes |-> b]

Submission0 ==
    [ProblemID |-> Empty, Language |-> Empty, sourceHref |-> NoURL,
     Source |-> NilBytes, OK |-> FALSE]

decodeSubmissionCase(ns, cs, idx, st) ==
    LET name == ns[idx] IN
    CASE name = "Problem" ->
            IF OutOfRange(cs, idx) THEN [st EXCEPT !.panic = TRUE]
            ELSE [st EXCEPT !.res.ProblemID = cs[idx]]
      [] name = "Language" ->
            IF OutOfRange(cs, idx) THEN [st EXCEPT !.panic = TRUE]
            ELSE [st EXCEPT !.res.Language = cs[idx]]
      [] name = "Result" ->
            IF OutOfRange(cs, idx) THEN [st EXCEPT !.panic = TRUE]
            ELSE [st EXCEPT !.res.OK = (cs[idx] = OKText)]
      [] OTHER -> st

RECURSIVE decodeSubmissionLoop(_, _, _, _)
decodeSubmissionLoop(ns, cs, idx, st) ==
    IF idx > Len(ns) \/ st.panic THEN st
    ELSE decodeSubmissionLoop(ns, cs, idx + 1, decodeSubmissionCase(ns, cs, idx, st))

decodeSubmission(ns, cs) == decodeSubmissionLoop(ns, cs, 1, DecodeStart(Submission0))

----------------------------------------------------------------------------
(* URLs.  An href attribute is kept as the parts url.Parse splits it into,  *)
(* with a flag for text url.Parse rejects; a path is its segments, a query  *)
(* its key=value pairs in textual order.                                    *)

URL(abs, host, rooted, path, query) ==
    [nil |-> FALSE, abs |-> abs, host |-> host, rooted |-> rooted,
     path |-> path, query |-> query]

Href(u) == [wf |-> TRUE, url |-> u]
BadHref == [wf |-> FALSE, url |-> NoURL]

ErrURLParse == [kind |-> "parse url"]

\* url.Parse
Parse(h) ==
    IF h.wf THEN [url |-> h.url, err |-> NoErr]
    ELSE [url |-> NoURL, err |-> ErrURLParse]

Front(s) == IF s = <<>> THEN <<>> ELSE SubSeq(s, 1, Len(s) - 1)

\* (*url.URL).ResolveReference, for references without dot segments
ResolveReference(base, ref) ==
    IF ref.abs THEN ref
    ELSE IF ref.path = <<>> /\ ~ref.rooted
    THEN [base EXCEPT !.query = IF ref.query = <<>> THEN base.query ELSE ref.query]
    ELSE [base EXCEPT !.rooted = TRUE,
                      !.path = IF ref.rooted THEN ref.path
                               ELSE Front(base.path) \o ref.path,
                      !.query = ref.query]

\* (*url.URL).Parse: url.Parse, then ResolveReference
ParseRef(base, h) ==
    LET p == Parse(h) IN
    IF p.err # NoErr THEN p
    ELSE [url |-> ResolveReference(base, p.url), err |-> NoErr]

----------------------------------------------------------------------------
(* Documents.  An anchor is its visible text (a sequence of tokens) and its *)
(* href attribute, if it has one.                                           *)

Anchor(text, href) == [text |-> text, hasHref |-> TRUE, href |-> href]
AnchorNoHref(text) == [text |-> text, hasHref |-> FALSE, href |-> BadHref]

\* the selector a:contains("...") : the text holds sub as a contiguous part
Contains(text, sub) ==
    \E i \in 0..(Len(text) - Len(sub)) : SubSeq(text, i + 1, i + Len(sub)) = sub

\* sel.Find(`a:contains(label)[href]`).Attr("href"): the href of the first
\* matching anchor, found = FALSE when no anchor matches
FindHref(anchors, label) ==
    LET hits == {i \in 1..Len(anchors) :
                    anchors[i].hasHref /\ Contains(anchors[i].text, label)}
    IN  IF hits = {} THEN [found |-> FALSE, href |-> BadHref]
        ELSE [found |-> TRUE,
              href |-> anchors[CHOOSE i \in hits : \A j \in hits : i <= j].href]

----------------------------------------------------------------------------
(* SubmissionsEmitter.Emit: the pass over the data rows *)

ErrSourceHref == [kind |-> "href to source not found"]

ViewText == <<"View">>

\* submissionRow without the look-up in uniqueSubmissions: every row is kept
submissionRowKeepsAll(ns, row, st) ==
    LET d == decodeSubmission(ns, row.cols) IN
    IF d.panic THEN [st EXCEPT !.panic = TRUE]
    ELSE IF d.err # NoErr THEN [st EXCEPT !.err = d.err]
    ELSE LET f == FindHref(row.anchors, ViewText) IN
         IF ~f.found THEN [st EXCEPT !.err = ErrSourceHref]
         ELSE LET p == Parse(f.href) IN
              IF p.err # NoErr THEN [st EXCEPT !.err = p.err]
              ELSE [st EXCEPT !.subs = Append(@, [d.res EXCEPT !.sourceHref = p.url]),
                              !.unique = @ \cup {d.res.ProblemID}]

\* submissionRow that passes over a row without a "View" link instead of
\* ending the pass with an error
submissionRowSkipsNoLink(ns, row, st) ==
    LET d == decodeSubmission(ns, row.cols) IN
    IF d.panic THEN [st EXCEPT !.panic = TRUE]
    ELSE IF d.err # NoErr THEN [st EXCEPT !.err = d.err]
    ELSE LET f == FindHref(row.anchors, ViewText) IN
         IF ~f.found THEN st
         ELSE LET p == Parse(f.href) IN
              IF p.err # NoErr THEN [st EXCEPT !.err = p.err]
              ELSE LET submission == [d.res EXCEPT !.sourceHref = p.url] IN
                   IF submission.ProblemID \in st.unique THEN st
                   ELSE [st EXCEPT !.subs = Append(@, submission),
                                   !.unique = @ \cup {submission.ProblemID}]

\* submissionRow with the look-up in uniqueSubmissions moved before the
\* search for the "View" link: a duplicate is dropped unseen
submissionRowDropsBeforeLink(ns, row, st) ==
    LET d == decodeSubmission(ns, row.cols) IN
    IF d.panic THEN [st EXCEPT !.panic = TRUE]
    ELSE IF d.err # NoErr THEN [st EXCEPT !.err = d.err]
    ELSE IF d.res.ProblemID \in st.unique THEN st
    ELSE LET f == FindHref(row.anchors, ViewText) IN
         IF ~f.found THEN [st EXCEPT !.err = ErrSourceHref]
         ELSE LET p == Parse(f.href) IN
              IF p.err # NoErr THEN [st EXCEPT !.err = p.err]
              ELSE LET submission == [d.res EXCEPT !.sourceHref = p.url] IN
                   [st EXCEPT !.subs = Append(@, submission),
                              !.unique = @ \cup {submission.ProblemID}]

\* the callback of EachWithBreak for one data row; the pass goes on while
\* st.err = NoErr and nothing panicked
submissionRow(ns, row, st) ==
    LET d == decodeSubmission(ns, row.cols) IN
    IF d.panic THEN [st EXCEPT !.panic = TRUE]
    ELSE IF d.err # NoErr THEN [st EXCEPT !.err = d.err]
    ELSE LET f == FindHref(row.anchors, ViewText) IN
         IF ~f.found THEN [st EXCEPT !.err = ErrSourceHref]
         ELSE LET p == Parse(f.href) IN
              IF p.err # NoErr THEN [st EXCEPT !.err = p.err]
              ELSE LET submission == [d.res EXCEPT !.sourceHref = p.url] IN
                   IF submission.ProblemID \in st.unique THEN st
                   ELSE [st EXCEPT !.subs = Append(@, submission),
                                   !.unique = @ \cup {submission.ProblemID}]

RECURSIVE submissionRows(_, _, _, _)
submissionRows(ns, rows, i, st) ==
    IF i > Len(rows) \/ st.err # NoErr \/ st.panic THEN st
    ELSE submissionRows(ns, rows, i + 1, submissionRow(ns, rows[i], st))

\* Emit up to its call of loadSource: subs is se.Submissions afterwards
EmitRows(ns, rows, subs) ==
    submissionRows(ns, rows, 1,
                   [subs |-> subs, unique |-> {}, err |-> NoErr, panic |-> FALSE])

----------------------------------------------------------------------------
(* Requests.  http.Client.Do returns at once, sending nothing, for a URL      *)
(* without a scheme and for a context that is already cancelled.  A request  *)
(* that was sent is in flight until Do and the read of the body return: it   *)
(* ends with the context's error if the context was cancelled meanwhile,     *)
(* with a transport error, or with a status and a body; no caller looks at   *)
(* the status.                                                               *)

DoErr(u, cause) == [kind |-> "Get", url |-> u, cause |-> cause]
ErrCanceled == [kind |-> "context canceled"]
ErrBodyRead == [kind |-> "unexpected EOF"]
ErrFetchURL(u, e) == [kind |-> "fetch url", url |-> u, cause |-> e]

\* the errors Do returns without sending the request
ImmediateErrs(u) ==
    IF u.nil \/ ~u.abs THEN {DoErr(u, "unsupported protocol scheme")}
    ELSE IF cancelled THEN {DoErr(u, "context canceled")}
    ELSE {}

\* a request in flight whose context is not bound to the run context
CanSucceedUnbound(u) == TRUE

\* a request in flight can be answered: req.WithContext(cctx) ends it with
\* the context's error once the run context is cancelled
CanSucceed(u) == ~cancelled

\* the errors a request in flight for u can end with: from Do itself, or from
\* reading the body of the response
FetchErrors(u) ==
    IF cancelled THEN {DoErr(u, "context canceled"), ErrCanceled}
    ELSE {DoErr(u, "connection refused"), ErrBodyRead}

IsCancellation(e) ==
    \/ e = ErrCanceled
    \/ e.kind = "Get" /\ e.cause = "context canceled"
    \/ e.kind = "fetch url" /\ (\/ e.cause = ErrCanceled
                                \/ e.cause.kind = "Get" /\ e.cause.cause = "context canceled")

\* the call of http.Client.Do is logged; the request is in flight afterwards
\* unless Do returned at once
Sent(stage, u) ==
    /\ fetchLog' = Append(fetchLog, [stage |-> stage, url |-> u])
    /\ req' = IF ImmediateErrs(u) = {} THEN Append(req, [stage |-> stage, url |-> u])
               ELSE req

NoPage == [status |-> 0]

\* WriteData has not been called
NoOutput == [called |-> FALSE, err |-> NoErr, panic |-> FALSE, files |-> <<>>]

----------------------------------------------------------------------------
(* Inputs: the pages the judge can answer with *)

JudgeHost == "judge"
TeamPath == <<"~ejudge", "team.cgi">>

EntryURL == URL(TRUE, JudgeHost, TRUE, TeamPath, <<<<"SID", "X">>>>)

\* an absolute link to the source of run n
SourceURL(n) == URL(TRUE, JudgeHost, TRUE, TeamPath, <<<<"SID", "X">>, <<"run_id", n>>>>)

SubmissionsHeader == <<"Problem", "Language", "Result", "View source">>

SubmissionRow(id, lang, result, anchors) ==
    [cols |-> <<id, lang, result,
                IF anchors = <<>> THEN Empty ELSE anchors[1].text>>,
     anchors |-> anchors]

WAText == <<"W", "A">>

\* the data rows a Submissions page is made of: two runs of problem A with
\* different links, runs of B and C, a run without a link, a run whose link
\* url.Parse rejects, and a row that has fewer cells than the header
SubmissionRowSet ==
    { SubmissionRow(<<"A">>, <<"g++">>, OKText, <<Anchor(ViewText, Href(SourceURL("1")))>>),
      SubmissionRow(<<"A">>, <<"gcc">>, WAText, <<Anchor(ViewText, Href(SourceURL("2")))>>),
      SubmissionRow(<<"B">>, <<"g++">>, OKText, <<Anchor(ViewText, Href(SourceURL("3")))>>),
      SubmissionRow(<<"C">>, <<"python">>, WAText, <<Anchor(ViewText, Href(SourceURL("4")))>>),
      SubmissionRow(<<"B">>, <<"gcc">>, WAText, <<AnchorNoHref(ViewText)>>),
      SubmissionRow(<<"A">>, <<"g++">>, WAText, <<Anchor(ViewText, BadHref)>>),
      [cols |-> << <<"B">> >>, anchors |-> <<Anchor(ViewText, Href(SourceURL("5")))>>] }

TablePage(status, ns, rows) == [status |-> status, names |-> ns, rows |-> rows]

\* the Submissions pages SubmissionsEmitter.Emit is checked on
SubmissionPages ==
    {TablePage(200, SubmissionsHeader, rows) : rows \in SeqsUpTo(SubmissionRowSet, MaxRows)}

\* the answers to a request for a source: the status does not matter
SourceResponses ==
    { [status |-> 200, body |-> <<"int main">>],
      [status |-> 404, body |-> <<"Not Found">>] }

----------------------------------------------------------------------------
(* Parser.Do with SubmissionsEmitter, and loadSource / fetchSource *)

\* main's signal handler cancels the run context
Cancel ==
    /\ ~cancelled
    /\ pc \notin {"done", "failed", "panic"}
    /\ cancelled' = TRUE
    /\ cancelAt' = IF req = <<>> THEN 0 ELSE Len(fetchLog)
    /\ UNCHANGED <<pc, req, fetchLog, he, pe, se, sd, page, srcIdx, ret>>
    /\ UNCHANGED <<decodeVars, out>>

\* the order of the emitters in GetData: HrefEmitter, then the list
\* ProblemsEmitter, StandingsEmitter, SubmissionsEmitter
NextStageStandingsFirst(stage) ==
    CASE stage = "login" -> "entry"
      [] stage = "entry" -> "standings"
      [] stage = "standings" -> "summary"
      [] stage = "summary" -> "submissions"

NextStage(stage) ==
    CASE stage = "login" -> "entry"
      [] stage = "entry" -> "summary"
      [] stage = "summary" -> "standings"
      [] stage = "standings" -> "submissions"

StageURL(stage) ==
    CASE stage = "entry" -> he.originalHref
      [] stage = "summary" -> he.SummaryHref
      [] stage = "standings" -> he.StandingsHref
      [] stage = "submissions" -> he.SubmissionsHref

\* Parser.Do: the request is handed to http.Client.Do
DoSend ==
    /\ pc \in {"entry", "summary", "standings", "submissions"}
    /\ req = <<>>
    /\ Sent(pc, StageURL(pc))
    /\ IF ImmediateErrs(StageURL(pc)) = {}
       THEN UNCHANGED <<pc, ret>>
       ELSE /\ pc' = "failed"
            /\ \E e \in ImmediateErrs(StageURL(pc)) : ret' = e
    /\ UNCHANGED <<cancelled, cancelAt, he, pe, se, sd, page, srcIdx>>
    /\ UNCHANGED <<decodeVars, out>>

\* Parser.Do: the request or the read of its body failed; Do returns the
\* error and GetData returns it
DoFail ==
    /\ pc \in {"entry", "summary", "standings", "submissions"}
    /\ req # <<>>
    /\ \E e \in FetchErrors(req[1].url) :
          /\ ret' = e
          /\ pc' = "failed"
          /\ req' = <<>>
    /\ UNCHANGED <<cancelled, cancelAt, fetchLog, he, pe, se, sd, page, srcIdx>>
    /\ UNCHANGED <<decodeVars, out>>

\* Parser.Do with SubmissionsEmitter: the page arrived and Emit ran up to its
\* call of loadSource; with nothing retained loadSource returns nil at once
SubmissionsEmit(pages) ==
    /\ pc = "submissions"
    /\ req # <<>>
    /\ CanSucceed(req[1].url)
    /\ \E resp \in pages :
          LET st == EmitRows(resp.names, resp.rows, se.Submissions) IN
          /\ page' = [page EXCEPT !.submissions = resp]
          /\ se' = [se EXCEPT !.Submissions = st.subs]
          /\ ret' = st.err
          /\ pc' = IF st.panic THEN "panic"
                    ELSE IF st.err # NoErr THEN "failed"
                    ELSE IF st.subs = <<>> THEN "done"
                    ELSE "sources"
    /\ req' = <<>>
    /\ srcIdx' = 1
    /\ UNCHANGED <<cancelled, cancelAt, fetchLog, he, pe, sd>>
    /\ UNCHANGED <<decodeVars, out>>

\* a loadSource that starts the next fetch without waiting for the one in
\* flight (a goroutine per submission)
fetchSourceSendFanOut ==
    /\ pc = "sources"
    /\ Len(req) < 2
    /\ LET u == se.Submissions[srcIdx].sourceHref IN
       /\ Sent("source", u)
       /\ IF ImmediateErrs(u) = {}
          THEN UNCHANGED <<pc, ret>>
          ELSE /\ pc' = "failed"
               /\ \E e \in ImmediateErrs(u) : ret' = ErrFetchURL(u, e)
    /\ UNCHANGED <<cancelled, cancelAt, he, pe, se, sd, page, srcIdx>>
    /\ UNCHANGED <<decodeVars, out>>

\* loadSource: fetchSource hands the request for the next submission to Do
fetchSourceSend ==
    /\ pc = "sources"
    /\ req = <<>>
    /\ LET u == se.Submissions[srcIdx].sourceHref IN
       /\ Sent("source", u)
       /\ IF ImmediateErrs(u) = {}
          THEN UNCHANGED <<pc, ret>>
          ELSE /\ pc' = "failed"
               /\ \E e \in ImmediateErrs(u) : ret' = ErrFetchURL(u, e)
    /\ UNCHANGED <<cancelled, cancelAt, he, pe, se, sd, page, srcIdx>>
    /\ UNCHANGED <<decodeVars, out>>

\* loadSource that logs a failed fetch and goes on with the next submission
fetchSourceRecvGoesOn ==
    /\ pc = "sources"
    /\ req # <<>>
    /\ \/ \E e \in FetchErrors(req[1].url) :
             /\ ret' = IF srcIdx = Len(se.Submissions)
                       THEN ErrFetchURL(se.Submissions[srcIdx].sourceHref, e)
                       ELSE NoErr
             /\ pc' = IF srcIdx = Len(se.Submissions) THEN "failed" ELSE "sources"
             /\ srcIdx' = IF srcIdx = Len(se.Submissions) THEN srcIdx ELSE srcIdx + 1
             /\ UNCHANGED se
       \/ /\ CanSucceed(req[1].url)
          /\ \E resp \in SourceResponses :
                se' = [se EXCEPT !.Submissions[srcIdx].Source = Bytes(resp.body)]
          /\ srcIdx' = srcIdx + 1
          /\ pc' = IF srcIdx = Len(se.Submissions) THEN "done" ELSE "sources"
          /\ ret' = NoErr
    /\ req' = <<>>
    /\ UNCHANGED <<cancelled, cancelAt, fetchLog, he, pe, sd, page>>
    /\ UNCHANGED <<decodeVars, out>>

\* loadSource: fetchSource returned; an error ends the loop and the stage
fetchSourceRecv ==
    /\ pc = "sources"
    /\ req # <<>>
    /\ \/ \E e \in FetchErrors(req[1].url) :
             /\ ret' = ErrFetchURL(se.Submissions[srcIdx].sourceHref, e)
             /\ pc' = "failed"
             /\ UNCHANGED <<se, srcIdx>>
       \/ /\ CanSucceed(req[1].url)
          /\ \E resp \in SourceResponses :
                se' = [se EXCEPT !.Submissions[srcIdx].Source = Bytes(resp.body)]
          /\ srcIdx' = srcIdx + 1
          /\ pc' = IF srcIdx = Len(se.Submissions) THEN "done" ELSE "sources"
          /\ ret' = NoErr
    /\ req' = <<>>
    /\ UNCHANGED <<cancelled, cancelAt, fetchLog, he, pe, sd, page>>
    /\ UNCHANGED <<decodeVars, out>>

----------------------------------------------------------------------------
(* SubmissionsEmitter.Emit on a fresh emitter, called through Parser.Do *)

NoPages ==
    [login |-> NoPage, entry |-> NoPage, summary |-> NoPage,
     standings |-> NoPage, submissions |-> NoPage]

AllRunsURL ==
    URL(TRUE, JudgeHost, TRUE, TeamPath, <<<<"SID", "X">>, <<"all_runs", "1">>>>)

DecodeIdle ==
    /\ names = <<>>
    /\ cols = <<>>
    /\ call = "none"
    /\ decoded = DecodeStart(Problem0)

InitEmit ==
    /\ DecodeIdle
    /\ pc = "submissions"
    /\ cancelled = FALSE
    /\ cancelAt = 0
    /\ req = <<>>
    /\ fetchLog = <<>>
    /\ he = [originalHref |-> EntryURL, SummaryHref |-> NoURL,
              StandingsHref |-> NoURL, SubmissionsHref |-> AllRunsURL]
    /\ pe = [Problems |-> <<>>, SummaryTable |-> <<>>]
    /\ se = [Submissions |-> <<>>]
    /\ sd = [originalHref |-> EntryURL, StandingsPage |-> <<>>]
    /\ page = NoPages
    /\ srcIdx = 1
    /\ ret = NoErr
    /\ out = NoOutput

NextEmit ==
    \/ Cancel
    \/ DoSend
    \/ DoFail
    \/ SubmissionsEmit(SubmissionPages)
    \/ fetchSourceSend
    \/ fetchSourceRecv

SpecEmit == InitEmit /\ [][NextEmit]_vars

----------------------------------------------------------------------------
(* url.ParseQuery, url.Values.Set and url.Values.Encode *)

ErrQuery == [kind |-> "invalid URL escape"]

\* a pair url.ParseQuery cannot unescape
BadPair == <<"%", "">>

\* the keys of the model's queries, in the byte order Encode sorts them by
KeyOrder == <<"SID", "a", "action", "all_runs", "run_id">>

\* url.ParseQuery: the values of each key, in textual order
ParseQuery(q) ==
    [vals |-> [k \in Range(KeyOrder) |->
                 LET at == SelectSeq(q, LAMBDA kv : kv[1] = k)
                 IN  [i \in 1..Len(at) |-> at[i][2]]],
     err |-> IF \E i \in 1..Len(q) : q[i] = BadPair THEN ErrQuery ELSE NoErr]

\* url.Values.Add in the place of Set: the value is appended to the key's
ValuesAdd(vals, k, v) == [vals EXCEPT ![k] = Append(@, v)]

\* url.Values.Set
ValuesSet(vals, k, v) == [vals EXCEPT ![k] = <<v>>]

RECURSIVE EncodeFrom(_, _)
EncodeFrom(vals, i) ==
    IF i > Len(KeyOrder) THEN <<>>
    ELSE [j \in 1..Len(vals[KeyOrder[i]]) |-> <<KeyOrder[i], vals[KeyOrder[i]][j]>>]
         \o EncodeFrom(vals, i + 1)

\* url.Values.Encode: sorted by key
Encode(vals) == EncodeFrom(vals, 1)

----------------------------------------------------------------------------
(* HrefEmitter *)

ErrHrefNotFound(label) == [kind |-> "href not found", label |-> label]

\* parseHref without the test of found: Attr gives "" for a missing link,
\* and "" resolves to originalHref itself
parseHrefIgnoresMissing(originalHref, label, anchors) ==
    LET f == FindHref(anchors, label) IN
    IF ~f.found THEN [url |-> originalHref, err |-> NoErr]
    ELSE ParseRef(originalHref, f.href)

\* HrefEmitter.parseHref
parseHref(originalHref, label, anchors) ==
    LET f == FindHref(anchors, label) IN
    IF ~f.found THEN [url |-> NoURL, err |-> ErrHrefNotFound(label)]
    ELSE ParseRef(originalHref, f.href)

\* HrefEmitter.Emit: the emitter afterwards and the error returned
HrefEmit(h, anchors) ==
    LET summary == parseHref(h.originalHref, <<"Summary">>, anchors)
        h1 == [h EXCEPT !.SummaryHref = summary.url]
        standings == parseHref(h.originalHref, <<"Standings">>, anchors)
        h2 == [h1 EXCEPT !.StandingsHref = standings.url]
        submissions == parseHref(h.originalHref, <<"Submissions">>, anchors)
        q == ParseQuery(submissions.url.query)
    IN  IF summary.err # NoErr THEN [h |-> h1, err |-> summary.err]
        ELSE IF standings.err # NoErr THEN [h |-> h2, err |-> standings.err]
        ELSE IF submissions.err # NoErr THEN [h |-> h2, err |-> submissions.err]
        ELSE IF q.err # NoErr THEN [h |-> h2, err |-> q.err]
        ELSE [h |-> [h2 EXCEPT !.SubmissionsHref =
                        [submissions.url EXCEPT
                            !.query = Encode(ValuesSet(q.vals, "all_runs", "1"))]],
              err |-> NoErr]

----------------------------------------------------------------------------
(* ProblemsEmitter.Emit *)

RECURSIVE problemRows(_, _, _, _)
problemRows(ns, rows, i, st) ==
    IF i > Len(rows) \/ st.err # NoErr \/ st.panic THEN st
    ELSE LET d == decodeProblem(ns, rows[i].cols) IN
         problemRows(ns, rows, i + 1,
                     IF d.panic THEN [st EXCEPT !.panic = TRUE]
                     ELSE IF d.err # NoErr THEN [st EXCEPT !.err = d.err]
                     ELSE [st EXCEPT !.problems = Append(@, d.res)])

\* the pass of an Emit whose callback returns true after a failed row: the
\* error is kept and the later rows are still decoded and appended
RECURSIVE problemRowsKeepsGoing(_, _, _, _)
problemRowsKeepsGoing(ns, rows, i, st) ==
    IF i > Len(rows) \/ st.panic THEN st
    ELSE LET d == decodeProblem(ns, rows[i].cols) IN
         problemRowsKeepsGoing(ns, rows, i + 1,
                     IF d.panic THEN [st EXCEPT !.panic = TRUE]
                     ELSE IF d.err # NoErr THEN [st EXCEPT !.err = d.err]
                     ELSE [st EXCEPT !.problems = Append(@, d.res)])

ProblemsEmitKeepsGoing(p, ns, rows) ==
    LET st == problemRowsKeepsGoing(ns, rows, 1,
                          [problems |-> p.Problems, err |-> NoErr, panic |-> FALSE])
    IN  [p |-> [Problems |-> st.problems, SummaryTable |-> ns],
         err |-> st.err, panic |-> st.panic]

\* ProblemsEmitter.Emit: SummaryTable is the inner HTML of the first row
ProblemsEmit(p, ns, rows) ==
    LET st == problemRows(ns, rows, 1,
                          [problems |-> p.Problems, err |-> NoErr, panic |-> FALSE])
    IN  [p |-> [Problems |-> st.problems, SummaryTable |-> ns],
         err |-> st.err, panic |-> st.panic]

----------------------------------------------------------------------------
(* StandingsEmitter.Emit *)

ErrChangeHref(e) == [kind |-> "change href address", cause |-> e]

\* the hrefs of the document's link[href] elements: the first is resolved
\* against originalHref, and SetAttr writes the result to every element of
\* the selection
StandingsEmit(s, links) ==
    IF links = <<>> THEN [s |-> [s EXCEPT !.StandingsPage = links], err |-> NoErr]
    ELSE LET u == ParseRef(s.originalHref, links[1]) IN
         IF u.err # NoErr THEN [s |-> s, err |-> ErrChangeHref(u.err)]
         ELSE [s |-> [s EXCEPT !.StandingsPage = [i \in 1..Len(links) |-> Href(u.url)]],
               err |-> NoErr]

----------------------------------------------------------------------------
(* Parser.GetData: loginContest, then Parser.Do with each emitter *)

ErrLoginHref == [kind |-> "href not found"]

\* p.BaseURL with the login query (the credentials are left out)
LoginURL == URL(TRUE, JudgeHost, TRUE, TeamPath, <<<<"action", "login">>>>)

\* p.BaseURL as configured: an absolute URL, or text url.Parse rejects
BaseURLs == {Href(LoginURL), BadHref}

Rel(file, query) == URL(FALSE, "", FALSE, <<file>>, query)

AnchorPage(status, anchors) == [status |-> status, anchors |-> anchors]

\* the answers to the login request: the link into the contest, a page
\* without it (refused login), a link url.Parse rejects, a relative link
LoginPages ==
    { AnchorPage(200, <<Anchor(<<"Enter">>, Href(EntryURL))>>),
      AnchorPage(200, <<>>),
      AnchorPage(200, <<Anchor(<<"Enter">>, BadHref)>>),
      AnchorPage(200, <<Anchor(<<"Enter">>, Href(Rel("team.cgi", <<<<"SID", "X">>>>)))>>) }

SummaryAnchor == Anchor(<<"Summary">>, Href(Rel("summary.cgi", <<<<"SID", "X">>>>)))
StandingsAnchor == Anchor(<<"Standings">>, Href(Rel("standings.cgi", <<<<"SID", "X">>>>)))
SubmissionsAnchor ==
    Anchor(<<"Submissions">>, Href(Rel("submissions.cgi", <<<<"a", "b">>, <<"SID", "X">>>>)))

\* the entry pages: the whole menu, the menu in another order with a query
\* that already has all_runs, menus lacking one link, a query that cannot be
\* unescaped, and an error page
EntryPages ==
    { AnchorPage(200, <<SummaryAnchor, StandingsAnchor, SubmissionsAnchor>>),
      AnchorPage(200, <<Anchor(<<"Submissions">>,
                               Href(Rel("submissions.cgi", <<<<"all_runs", "0">>>>))),
                        StandingsAnchor, SummaryAnchor>>),
      AnchorPage(200, <<StandingsAnchor, SubmissionsAnchor>>),
      AnchorPage(200, <<SummaryAnchor, SubmissionsAnchor>>),
      AnchorPage(200, <<SummaryAnchor, StandingsAnchor>>),
      AnchorPage(200, <<SummaryAnchor, StandingsAnchor,
                        Anchor(<<"Submissions">>, Href(Rel("submissions.cgi", <<BadPair>>)))>>),
      AnchorPage(404, <<>>) }

ProblemsHeader == <<"Short name", "Long name", "Status", "Run ID">>

ProblemRow(id, name, status, run) == [cols |-> <<id, name, status, run>>]

\* the Summary pages: two problems, an accepted row whose run id is not a
\* number, a row with fewer cells than the header, and an error page
SummaryPages ==
    { TablePage(200, ProblemsHeader,
                <<ProblemRow(<<"A">>, <<"Sum">>, OKText, <<"1", "2">>),
                  ProblemRow(<<"B">>, <<"Max">>, WAText, Empty)>>),
      TablePage(200, ProblemsHeader,
                <<ProblemRow(<<"A">>, <<"Sum">>, OKText, <<"1", "x">>),
                  ProblemRow(<<"B">>, <<"Max">>, WAText, Empty)>>),
      TablePage(200, ProblemsHeader, <<[cols |-> << <<"A">> >>]>>),
      TablePage(404, <<>>, <<>>) }

LinkPage(status, links) == [status |-> status, links |-> links]

\* the Standings pages: a relative stylesheet link, none, one url.Parse rejects
StandingsPages ==
    { LinkPage(200, <<Href(Rel("style.css", <<>>))>>),
      LinkPage(200, <<>>),
      LinkPage(200, <<BadHref>>) }

\* the Submissions pages of a whole run
RunSubmissionPages ==
    {TablePage(200, SubmissionsHeader, rows) : rows \in SeqsUpTo(SubmissionRowSet, MaxRunRows)}

\* loginContest: url.Parse(p.BaseURL), then the login request
loginContestSend ==
    /\ pc = "login"
    /\ req = <<>>
    /\ \E base \in BaseURLs :
          LET u == Parse(base) IN
          IF u.err # NoErr
          THEN /\ ret' = u.err
               /\ pc' = "failed"
               /\ UNCHANGED <<req, fetchLog>>
          ELSE /\ Sent("login", u.url)
               /\ IF ImmediateErrs(u.url) = {}
                  THEN UNCHANGED <<pc, ret>>
                  ELSE /\ pc' = "failed"
                       /\ \E e \in ImmediateErrs(u.url) : ret' = e
    /\ UNCHANGED <<cancelled, cancelAt, he, pe, se, sd, page, srcIdx>>
    /\ UNCHANGED <<decodeVars, out>>

\* loginContest: the request returned; on success InitEmitters(uri)
loginContestRecv ==
    /\ pc = "login"
    /\ req # <<>>
    /\ \/ \E e \in FetchErrors(req[1].url) :
             /\ ret' = e
             /\ pc' = "failed"
             /\ UNCHANGED <<he, sd, page>>
       \/ /\ CanSucceed(req[1].url)
          /\ \E resp \in LoginPages :
                LET found == resp.anchors # <<>> /\ resp.anchors[1].hasHref
                    uri == IF found THEN Parse(resp.anchors[1].href)
                           ELSE [url |-> NoURL, err |-> ErrLoginHref]
                IN  /\ page' = [page EXCEPT !.login = resp]
                    /\ ret' = uri.err
                    /\ IF uri.err # NoErr
                       THEN /\ pc' = "failed"
                            /\ UNCHANGED <<he, sd>>
                       ELSE /\ pc' = NextStage("login")
                            /\ he' = [he EXCEPT !.originalHref = uri.url]
                            /\ sd' = [sd EXCEPT !.originalHref = uri.url]
    /\ req' = <<>>
    /\ UNCHANGED <<cancelled, cancelAt, fetchLog, pe, se, srcIdx>>
    /\ UNCHANGED <<decodeVars, out>>

\* Parser.Do with HrefEmitter
HrefEmitterEmit(pages) ==
    /\ pc = "entry"
    /\ req # <<>>
    /\ CanSucceed(req[1].url)
    /\ \E resp \in pages :
          LET r == HrefEmit(he, resp.anchors) IN
          /\ page' = [page EXCEPT !.entry = resp]
          /\ he' = r.h
          /\ ret' = r.err
          /\ pc' = IF r.err # NoErr THEN "failed" ELSE NextStage("entry")
    /\ req' = <<>>
    /\ UNCHANGED <<cancelled, cancelAt, fetchLog, pe, se, sd, srcIdx>>
    /\ UNCHANGED <<decodeVars, out>>

\* GetData that logs the error of the ProblemsEmitter and goes on
ProblemsEmitterEmitGoesOn(pages) ==
    /\ pc = "summary"
    /\ req # <<>>
    /\ CanSucceed(req[1].url)
    /\ \E resp \in pages :
          LET r == ProblemsEmit(pe, resp.names, resp.rows) IN
          /\ page' = [page EXCEPT !.summary = resp]
          /\ pe' = r.p
          /\ ret' = NoErr
          /\ pc' = IF r.panic THEN "panic" ELSE NextStage("summary")
    /\ req' = <<>>
    /\ UNCHANGED <<cancelled, cancelAt, fetchLog, he, se, sd, srcIdx>>
    /\ UNCHANGED <<decodeVars, out>>

\* Parser.Do with ProblemsEmitter
ProblemsEmitterEmit(pages) ==
    /\ pc = "summary"
    /\ req # <<>>
    /\ CanSucceed(req[1].url)
    /\ \E resp \in pages :
          LET r == ProblemsEmit(pe, resp.names, resp.rows) IN
          /\ page' = [page EXCEPT !.summary = resp]
          /\ pe' = r.p
          /\ ret' = r.err
          /\ pc' = IF r.panic THEN "panic"
                    ELSE IF r.err # NoErr THEN "failed" ELSE NextStage("summary")
    /\ req' = <<>>
    /\ UNCHANGED <<cancelled, cancelAt, fetchLog, he, se, sd, srcIdx>>
    /\ UNCHANGED <<decodeVars, out>>

\* Parser.Do with StandingsEmitter
StandingsEmitterEmit(pages) ==
    /\ pc = "standings"
    /\ req # <<>>
    /\ CanSucceed(req[1].url)
    /\ \E resp \in pages :
          LET r == StandingsEmit(sd, resp.links) IN
          /\ page' = [page EXCEPT !.standings = resp]
          /\ sd' = r.s
          /\ ret' = r.err
          /\ pc' = IF r.err # NoErr THEN "failed" ELSE NextStage("standings")
    /\ req' = <<>>
    /\ UNCHANGED <<cancelled, cancelAt, fetchLog, he, pe, se, srcIdx>>
    /\ UNCHANGED <<decodeVars, out>>

----------------------------------------------------------------------------
(* Parser.Run: WriteData after GetData returned nil *)

ErrStat == [kind |-> "stat"]
ErrDirExists == [kind |-> "output directory exists"]
ErrIsFile == [kind |-> "output path is file"]
ErrMkdir == [kind |-> "mkdir"]
ErrStandingsCreate == [kind |-> "standings"]
ErrGeneratePdf == [kind |-> "generate standings"]
ErrProblemNotFound(id) == [kind |-> "problem not found", id |-> id]
ErrProblemDir(dir) == [kind |-> "create problem dir", dir |-> dir]
ErrWriteFile(path) == [kind |-> "write file", path |-> path]

\* what os.Stat(out) can find
StatResults == {"absent", "dir", "file", "error"}

\* fileName: a panic for a language that is none of the three
fileName(lang) ==
    CASE Contains(lang, <<"g++">>) -> [name |-> "main.cpp", panic |-> FALSE]
      [] Contains(lang, <<"gcc">>) -> [name |-> "main.c", panic |-> FALSE]
      [] Contains(lang, <<"python">>) -> [name |-> "main.py", panic |-> FALSE]
      [] OTHER -> [name |-> "", panic |-> TRUE]

File(path, data) == [path |-> path, data |-> data]

\* the calls WriteData makes to the file system, numbered in the order it
\* makes them: MkdirAll(out), os.Create(standings.pdf), GeneratePdf, then
\* MkdirAll(problemDir) and WriteFile for each submission
OpMkdirOut == 1
OpCreateStandings == 2
OpGeneratePdf == 3
OpMkdirProblem(m) == 3 + 2 * m - 1
OpWriteFile(m) == 3 + 2 * m

\* problemsMap[id], ok
HasProblem(id) == \E k \in 1..Len(pe.Problems) : pe.Problems[k].ID = id

\* a loop that passes over a submission without a problem
RECURSIVE writeSubmissionsSkipsUnknown(_, _, _)
writeSubmissionsSkipsUnknown(m, fail, st) ==
    IF m > Len(se.Submissions) THEN st
    ELSE LET submission == se.Submissions[m]
             name == fileName(submission.Language)
             path == <<submission.ProblemID, name.name>>
         IN  IF ~HasProblem(submission.ProblemID)
             THEN writeSubmissionsSkipsUnknown(m + 1, fail, st)
             ELSE IF fail = OpMkdirProblem(m)
             THEN [st EXCEPT !.err = ErrProblemDir(submission.ProblemID)]
             ELSE IF name.panic THEN [st EXCEPT !.panic = TRUE]
             ELSE IF fail = OpWriteFile(m) THEN [st EXCEPT !.err = ErrWriteFile(path)]
             ELSE writeSubmissionsSkipsUnknown(m + 1, fail,
                      [st EXCEPT !.files = Append(@, File(path, submission.Source))])

\* the loop of WriteData over p.Submissions, from submission m on; fail is
\* the file system call that fails, 0 when none does
RECURSIVE writeSubmissions(_, _, _)
writeSubmissions(m, fail, st) ==
    IF m > Len(se.Submissions) THEN st
    ELSE LET submission == se.Submissions[m]
             name == fileName(submission.Language)
             path == <<submission.ProblemID, name.name>>
         IN  IF ~HasProblem(submission.ProblemID)
             THEN [st EXCEPT !.err = ErrProblemNotFound(submission.ProblemID)]
             ELSE IF fail = OpMkdirProblem(m)
             THEN [st EXCEPT !.err = ErrProblemDir(submission.ProblemID)]
             ELSE IF name.panic THEN [st EXCEPT !.panic = TRUE]
             ELSE IF fail = OpWriteFile(m) THEN [st EXCEPT !.err = ErrWriteFile(path)]
             ELSE writeSubmissions(m + 1, fail,
                      [st EXCEPT !.files = Append(@, File(path, submission.Source))])

StandingsPath == <<"standings.pdf">>

\* Parser.WriteData: files are the files written in full, in order; the
\* standings file, once created, is empty when the renderer fails
WriteData(stat, force, fail) ==
    LET st == [called |-> TRUE, err |-> NoErr, panic |-> FALSE, files |-> <<>>] IN
    IF stat = "error" THEN [st EXCEPT !.err = ErrStat]
    ELSE IF stat = "dir" /\ ~force THEN [st EXCEPT !.err = ErrDirExists]
    ELSE IF stat = "file" THEN [st EXCEPT !.err = ErrIsFile]
    ELSE IF fail = OpMkdirOut THEN [st EXCEPT !.err = ErrMkdir]
    ELSE IF fail = OpCreateStandings THEN [st EXCEPT !.err = ErrStandingsCreate]
    ELSE IF fail = OpGeneratePdf
    THEN [st EXCEPT !.err = ErrGeneratePdf, !.files = <<File(StandingsPath, <<>>)>>]
    ELSE writeSubmissions(1, fail,
             [st EXCEPT !.files = <<File(StandingsPath, sd.StandingsPage)>>])

\* a Run that calls WriteData whatever GetData returned
RunWriteDataAnyway ==
    /\ pc \in {"done", "failed"}
    /\ ~out.called
    /\ \E stat \in StatResults, force \in BOOLEAN,
          fail \in 0..OpWriteFile(Len(se.Submissions)) :
          out' = WriteData(stat, force, fail)
    /\ UNCHANGED <<pc, cancelled, cancelAt, req, fetchLog, he, pe, se, sd, page, srcIdx, ret>>
    /\ UNCHANGED decodeVars

\* Parser.Run: GetData returned nil and WriteData(p.Output) is called
RunWriteData ==
    /\ pc = "done"
    /\ ~out.called
    /\ \E stat \in StatResults, force \in BOOLEAN,
          fail \in 0..OpWriteFile(Len(se.Submissions)) :
          out' = WriteData(stat, force, fail)
    /\ UNCHANGED <<pc, cancelled, cancelAt, req, fetchLog, he, pe, se, sd, page, srcIdx, ret>>
    /\ UNCHANGED decodeVars

\* a Parser as main builds it: nothing fetched, every emitter empty
Init ==
    /\ DecodeIdle
    /\ pc = "login"
    /\ cancelled = FALSE
    /\ cancelAt = 0
    /\ req = <<>>
    /\ fetchLog = <<>>
    /\ he = [originalHref |-> NoURL, SummaryHref |-> NoURL,
              StandingsHref |-> NoURL, SubmissionsHref |-> NoURL]
    /\ pe = [Problems |-> <<>>, SummaryTable |-> <<>>]
    /\ se = [Submissions |-> <<>>]
    /\ sd = [originalHref |-> NoURL, StandingsPage |-> <<>>]
    /\ page = NoPages
    /\ srcIdx = 1
    /\ ret = NoErr
    /\ out = NoOutput

Next ==
    \/ Cancel
    \/ loginContestSend
    \/ loginContestRecv
    \/ DoSend
    \/ DoFail
    \/ HrefEmitterEmit(EntryPages)
    \/ ProblemsEmitterEmit(SummaryPages)
    \/ StandingsEmitterEmit(StandingsPages)
    \/ SubmissionsEmit(RunSubmissionPages)
    \/ fetchSourceSend
    \/ fetchSourceRecv
    \/ RunWriteData

Spec == Init /\ [][Next]_vars

----------------------------------------------------------------------------
(* What the Submissions page asks for, read off the page itself *)

SourceLog == SelectSeq(fetchLog, LAMBDA f : f.stage = "source")

SubRows == page.submissions.rows

EmitRan == page.submissions # NoPage

\* the problem identifier of data row i: the cell under the "Problem" header
RowProblem(i) ==
    LET at == {c \in 1..Len(page.submissions.names) :
                  page.submissions.names[c] = "Problem" /\ c <= Len(SubRows[i].cols)}
    IN  IF at = {} THEN Empty
        ELSE SubRows[i].cols[CHOOSE c \in at : \A d \in at : d <= c]

RowHasView(i) ==
    \E a \in 1..Len(SubRows[i].anchors) :
        SubRows[i].anchors[a].hasHref /\ Contains(SubRows[i].anchors[a].text, ViewText)

RowViewHref(i) == FindHref(SubRows[i].anchors, ViewText).href

RowIsFull(i) == Len(SubRows[i].cols) >= Len(page.submissions.names)

\* the rows that are the first of their problem identifier, in row order
FirstRows == {i \in 1..Len(SubRows) : \A j \in 1..(i - 1) : RowProblem(j) # RowProblem(i)}

RECURSIVE Ascending(_)
Ascending(S) ==
    IF S = {} THEN <<>>
    ELSE LET m == CHOOSE x \in S : \A y \in S : x <= y IN <<m>> \o Ascending(S \ {m})

\* every row has all its cells and a "View" link that url.Parse accepts
AllRowsUsable ==
    \A i \in 1..Len(SubRows) : RowIsFull(i) /\ RowHasView(i) /\ RowViewHref(i).wf

\* C1: Emit on a fresh emitter, every row carrying a usable "View" link:
\* se.Submissions is exactly the first row of each distinct problem
\* identifier, in row order; the source requests issued so far are the links
\* of the first retained submissions, one each and in that order, never the
\* link of a dropped duplicate; and once Emit has returned nil there is
\* exactly one request per retained submission.
C1_FirstRowPerProblem ==
    (EmitRan /\ AllRowsUsable) =>
        LET keep == Ascending(FirstRows) IN
        /\ Len(se.Submissions) = Len(keep)
        /\ \A m \in 1..Len(keep) :
              /\ se.Submissions[m].ProblemID = RowProblem(keep[m])
              /\ se.Submissions[m].Language = SubRows[keep[m]].cols[2]
              /\ se.Submissions[m].sourceHref = RowViewHref(keep[m]).url
        /\ Len(SourceLog) <= Len(keep)
        /\ \A m \in 1..Len(SourceLog) : SourceLog[m].url = RowViewHref(keep[m]).url
        /\ (pc = "done" => Len(SourceLog) = Len(keep))

\* rows A, B, A, C were decoded, three submissions were retained and all
\* three sources were fetched
C1_Witness ==
    /\ EmitRan
    /\ AllRowsUsable
    /\ Len(SubRows) = 4
    /\ RowProblem(1) = RowProblem(3)
    /\ RowViewHref(1) # RowViewHref(3)
    /\ Cardinality(FirstRows) = 3
    /\ pc = "done"
    /\ Len(SourceLog) = 3

RowsWithoutView == {i \in 1..Len(SubRows) : ~RowHasView(i)}

Min(S) == CHOOSE x \in S : \A y \in S : x <= y

\* C2: once Emit has returned for a page with a row that lacks a "View"
\* link, the stage has failed and no request for a source was ever issued,
\* not even for the rows before the defective one; the error is the
\* link-not-found error, unless a row before the first link-less row has a
\* link url.Parse rejects, whose error is then the one returned.
C2_MissingLinkNoFetch ==
    (EmitRan /\ RowsWithoutView # {} /\ pc # "panic") =>
        LET first == Min(RowsWithoutView)
            earlierBad == \E j \in 1..(first - 1) : ~RowViewHref(j).wf
        IN  /\ pc = "failed"
            /\ ret = IF earlierBad THEN ErrURLParse ELSE ErrSourceHref
            /\ SourceLog = <<>>
            /\ \A m \in 1..Len(se.Submissions) : se.Submissions[m].Source.nil

\* rows P1, P2, P3 with P2's link absent: P1 was retained before the pass
\* stopped, link-not-found was returned and nothing was fetched
C2_Witness ==
    /\ EmitRan
    /\ Len(SubRows) = 3
    /\ RowsWithoutView = {2}
    /\ RowHasView(1) /\ RowViewHref(1).wf /\ RowIsFull(1)
    /\ RowHasView(3) /\ RowViewHref(3).wf /\ RowProblem(3) # RowProblem(1)
    /\ Len(se.Submissions) = 1
    /\ ret = ErrSourceHref
    /\ pc = "failed"
    /\ SourceLog = <<>>

\* C4: the sources are requested one at a time and in list order: request m
\* is for se.Submissions[m] and is issued only when every earlier one has
\* been answered and stored; when a fetch fails the stage returns an error
\* holding that URL and the cause, the failed request is the last request
\* ever issued (no retry, no later submission fetched).
C4_SequentialFailFast ==
    /\ Len(SourceLog) <= Len(se.Submissions)
    /\ \A m \in 1..Len(SourceLog) :
          /\ SourceLog[m].url = se.Submissions[m].sourceHref
          /\ (m < Len(SourceLog) => ~se.Submissions[m].Source.nil)
    /\ (pc = "sources" => Len(SourceLog) = IF req = <<>> THEN srcIdx - 1 ELSE srcIdx)
    /\ (pc = "failed" /\ ret.kind = "fetch url") =>
          /\ Len(SourceLog) = srcIdx
          /\ req = <<>>
          /\ ret.url = SourceLog[srcIdx].url
          /\ ret.url = se.Submissions[srcIdx].sourceHref
          /\ ret.cause # NoErr
          /\ ret.cause \in {DoErr(ret.url, "connection refused"), ErrBodyRead,
                             DoErr(ret.url, "context canceled"), ErrCanceled}
          /\ \A m \in srcIdx..Len(se.Submissions) : se.Submissions[m].Source.nil

\* the second of three fetches failed in the transport: two requests were
\* issued, none for the third submission
C4_Witness ==
    /\ pc = "failed"
    /\ ~cancelled
    /\ ret.kind = "fetch url"
    /\ Len(se.Submissions) = 3
    /\ srcIdx = 2
    /\ Len(SourceLog) = 2
    /\ ret.url = se.Submissions[2].sourceHref

\* C5 (as claimed): after Emit returned, Source is populated for all the
\* submissions on success and for none of them on failure.
C5_AllOrNone ==
    (EmitRan /\ pc \in {"done", "failed"}) =>
        /\ (pc = "done" => \A m \in 1..Len(se.Submissions) : ~se.Submissions[m].Source.nil)
        /\ (pc = "failed" => \A m \in 1..Len(se.Submissions) : se.Submissions[m].Source.nil)

----------------------------------------------------------------------------
(* Whole runs of GetData *)

\* C3: a request that was in flight when the run context was cancelled has,
\* once it returned, failed with the context's error; GetData has failed
\* with that error (wrapped by loadSource for a source), and the cancelled
\* request is the last call of Do of the run: no later source, page or
\* login request is attempted.
C3_CancelAbortsInFlight ==
    (cancelAt > 0 /\ req = <<>>) =>
        /\ pc = "failed"
        /\ IsCancellation(ret)
        /\ Len(fetchLog) = cancelAt
        /\ (fetchLog[cancelAt].stage = "source" =>
               /\ ret.kind = "fetch url"
               /\ ret.url = fetchLog[cancelAt].url
               /\ se.Submissions[srcIdx].Source.nil)

\* the run was cancelled while the second of three sources was in flight
C3_Witness ==
    /\ cancelAt > 0
    /\ req = <<>>
    /\ fetchLog[cancelAt].stage = "source"
    /\ srcIdx = 2
    /\ Len(se.Submissions) = 3
    /\ ~se.Submissions[1].Source.nil
    /\ pc = "failed"

StageOrder == <<"login", "entry", "summary", "standings", "submissions">>

\* the error the emitter of a stage returns for the page the stage was given
StageErr(stage) ==
    CASE stage = "login" ->
            IF page.login.anchors # <<>> /\ page.login.anchors[1].hasHref
            THEN Parse(page.login.anchors[1].href).err
            ELSE ErrLoginHref
      [] stage = "entry" ->
            HrefEmit([originalHref |-> he.originalHref, SummaryHref |-> NoURL,
                      StandingsHref |-> NoURL, SubmissionsHref |-> NoURL],
                     page.entry.anchors).err
      [] stage = "summary" ->
            ProblemsEmit([Problems |-> <<>>, SummaryTable |-> <<>>],
                         page.summary.names, page.summary.rows).err
      [] stage = "standings" ->
            StandingsEmit(sd, page.standings.links).err
      [] stage = "submissions" ->
            EmitRows(page.submissions.names, page.submissions.rows, <<>>).err

StageDone(stage) == page[stage] # NoPage /\ StageErr(stage) = NoErr

\* C6: the calls of Do are, in this order, login, entry page, Summary,
\* Standings, Submissions and then the sources; each call is made only when
\* every earlier stage was given its page and its emitter returned nil, and
\* each stage page is asked for at the link the HrefEmitter stored for it.
C6_StageOrder ==
    /\ \A i \in 1..Len(fetchLog) :
          /\ fetchLog[i].stage = IF i <= Len(StageOrder) THEN StageOrder[i] ELSE "source"
          /\ \A j \in 1..(i - 1) : j <= Len(StageOrder) => StageDone(StageOrder[j])
    /\ (Len(fetchLog) >= 2 => fetchLog[2].url = he.originalHref)
    /\ (Len(fetchLog) >= 3 => fetchLog[3].url = he.SummaryHref)
    /\ (Len(fetchLog) >= 4 => fetchLog[4].url = he.StandingsHref)
    /\ (Len(fetchLog) >= 5 => fetchLog[5].url = he.SubmissionsHref)

\* a run that went through all five stages and fetched two sources
C6_Witness ==
    /\ pc = "done"
    /\ Len(fetchLog) = 7
    /\ fetchLog[3].url.path = <<"~ejudge", "summary.cgi">>
    /\ fetchLog[4].url.path = <<"~ejudge", "standings.cgi">>

\* the stages whose page arrived and whose emitter returned an error
ErredStages == {i \in 1..Len(StageOrder) :
                   page[StageOrder[i]] # NoPage /\ StageErr(StageOrder[i]) # NoErr}

TransportErrs(u) ==
    {DoErr(u, "unsupported protocol scheme"), DoErr(u, "context canceled"),
     DoErr(u, "connection refused"), ErrCanceled, ErrBodyRead}

\* C7: an error is terminal.  While GetData runs no stage so far has returned
\* an error; once it has failed, the error it returned is the error of the
\* one stage that erred (the emitter's error for its page, or the error of
\* its request), no request is in flight, the failing stage's request is
\* the last call of Do, no later stage was given a page, and no request was
\* made twice.
C7_FirstErrorTerminal ==
    /\ (pc \notin {"failed", "panic"} => ret = NoErr /\ ErredStages = {})
    /\ \A i, j \in 1..Len(fetchLog) :
          (i < j /\ fetchLog[i].stage = fetchLog[j].stage) =>
              /\ fetchLog[i].stage = "source"
              /\ fetchLog[i].url # fetchLog[j].url
    /\ (pc = "failed") =>
          /\ ret # NoErr
          /\ req = <<>>
          /\ Cardinality(ErredStages) <= 1
          /\ \A i \in ErredStages :
                /\ ret = StageErr(StageOrder[i])
                /\ Len(fetchLog) = i
                /\ \A j \in (i + 1)..Len(StageOrder) : page[StageOrder[j]] = NoPage
          /\ (ErredStages = {} /\ fetchLog = <<>>) => ret = ErrURLParse
          /\ (ErredStages = {} /\ fetchLog # <<>>) =>
                LET last == fetchLog[Len(fetchLog)] IN
                /\ ret \in IF last.stage = "source"
                            THEN {ErrFetchURL(last.url, e) : e \in TransportErrs(last.url)}
                            ELSE TransportErrs(last.url)
                /\ (last.stage # "source" => page[last.stage] = NoPage)

\* the Summary page had an accepted row whose run id is not a number: the
\* run ended there, after three requests, with the decode error
C7_Witness ==
    /\ pc = "failed"
    /\ ret = ErrDecodeRunID
    /\ Len(fetchLog) = 3
    /\ page.summary # NoPage
    /\ page.standings = NoPage

----------------------------------------------------------------------------
(* The row decoders on their own: any header row and any data row *)

ProblemLabels == {"Short name", "Long name", "Status", "Run ID"}
SubmissionLabels == {"Problem", "Language", "Result"}

\* a header cell no decoder knows
OtherLabel == "Time"

\* the cell texts: "OK", a number, text that is neither, and an empty cell
Cells == {OKText, <<"-", "1", "2">>, <<"1", "x">>, Empty}

ProblemHeaders == SeqsUpTo(ProblemLabels \cup {OtherLabel}, MaxCols)
SubmissionHeaders == SeqsUpTo(SubmissionLabels \cup {OtherLabel}, MaxCols)

\* no run is under way
RunIdle ==
    /\ pc = "idle"
    /\ cancelled = FALSE
    /\ cancelAt = 0
    /\ req = <<>>
    /\ fetchLog = <<>>
    /\ he = [originalHref |-> NoURL, SummaryHref |-> NoURL,
              StandingsHref |-> NoURL, SubmissionsHref |-> NoURL]
    /\ pe = [Problems |-> <<>>, SummaryTable |-> <<>>]
    /\ se = [Submissions |-> <<>>]
    /\ sd = [originalHref |-> NoURL, StandingsPage |-> <<>>]
    /\ page = NoPages
    /\ srcIdx = 1
    /\ ret = NoErr
    /\ out = NoOutput

InitDecode ==
    /\ names \in ProblemHeaders \cup SubmissionHeaders
    /\ cols = <<>>
    /\ call = "none"
    /\ decoded = DecodeStart(Problem0)
    /\ RunIdle

\* ProblemsEmitter.Emit hands the header and one data row to decodeProblem
callDecodeProblem ==
    /\ call = "none"
    /\ names \in ProblemHeaders
    /\ \E cs \in SeqsUpTo(Cells, MaxCols) :
          /\ cols' = cs
          /\ decoded' = decodeProblem(names, cs)
    /\ call' = "problem"
    /\ UNCHANGED names
    /\ UNCHANGED runVars

\* SubmissionsEmitter.Emit hands the header and one data row to decodeSubmission
callDecodeSubmission ==
    /\ call = "none"
    /\ names \in SubmissionHeaders
    /\ \E cs \in SeqsUpTo(Cells, MaxCols) :
          /\ cols' = cs
          /\ decoded' = decodeSubmission(names, cs)
    /\ call' = "submission"
    /\ UNCHANGED names
    /\ UNCHANGED runVars

NextDecode ==
    \/ callDecodeProblem
    \/ callDecodeSubmission

SpecDecode == InitDecode /\ [][NextDecode]_vars

\* the columns under header label l that the row has a cell for
ColumnsOf(l) == {i \in 1..Len(names) : names[i] = l /\ i <= Len(cols)}

\* the header and the row without the columns whose label is not in known
KnownColumns(known) == {i \in 1..Len(names) : names[i] \in known}
StripNames(known) == SelectSeq(names, LAMBDA n : n \in known)
StripCols(known) ==
    LET kept == Ascending({i \in KnownColumns(known) : i <= Len(cols)})
    IN  [m \in 1..Len(kept) |-> cols[kept[m]]]

\* C8: a field whose label is not in the header row has its zero value; an
\* error is returned only for a "Run ID" cell that is not a number in a row
\* with an "OK" status cell, never for a missing label; and the columns
\* with other labels change nothing: the result is that of the header and
\* row without them.
C8_MissingLabelZeroValue ==
    /\ (call = "problem") =>
          /\ ("Short name" \notin Range(names) => decoded.res.ID = Empty)
          /\ ("Long name" \notin Range(names) => decoded.res.Name = Empty)
          /\ ("Status" \notin Range(names) => decoded.res.OK = FALSE)
          /\ ("Run ID" \notin Range(names) => decoded.res.RunID = 0)
          /\ (decoded.err # NoErr =>
                 /\ decoded.err = ErrDecodeRunID
                 /\ \E i \in ColumnsOf("Run ID") : ~Atoi(cols[i]).ok
                 /\ \E i \in ColumnsOf("Status") : cols[i] = OKText)
          /\ decoded = decodeProblem(StripNames(ProblemLabels), StripCols(ProblemLabels))
    /\ (call = "submission") =>
          /\ ("Problem" \notin Range(names) => decoded.res.ProblemID = Empty)
          /\ ("Language" \notin Range(names) => decoded.res.Language = Empty)
          /\ ("Result" \notin Range(names) => decoded.res.OK = FALSE)
          /\ decoded.err = NoErr
          /\ decoded = decodeSubmission(StripNames(SubmissionLabels),
                                        StripCols(SubmissionLabels))

\* a header with "Long name", "Run ID" and an unknown column but no
\* "Status": the name was read, the run id left at 0, no error
C8_Witness ==
    /\ call = "problem"
    /\ "Status" \notin Range(names)
    /\ "Short name" \notin Range(names)
    /\ OtherLabel \in Range(names)
    /\ \E i \in ColumnsOf("Run ID") : ~Atoi(cols[i]).ok
    /\ \E i \in ColumnsOf("Long name") : cols[i] # Empty /\ decoded.res.Name = cols[i]
    /\ ~decoded.panic
    /\ decoded.err = NoErr
    /\ decoded.res.RunID = 0
    /\ decoded.res.ID = Empty

\* C9: in a row none of whose "Status" cells is "OK" the run id is never
\* parsed: decodeProblem returns no error, whatever the "Run ID" cell
\* holds, the record is not accepted and its RunID is 0.
C9_NotAcceptedSkipsRunID ==
    (call = "problem" /\ \A i \in ColumnsOf("Status") : cols[i] # OKText) =>
        /\ decoded.err = NoErr
        /\ decoded.res.RunID = 0
        /\ decoded.res.OK = FALSE

\* a row with a "Status" cell that is not "OK" and a "Run ID" cell that is not
\* a number, in either order, was decoded without an error
C9_Witness ==
    /\ call = "problem"
    /\ ColumnsOf("Status") # {}
    /\ \A i \in ColumnsOf("Status") : cols[i] # OKText
    /\ \E i \in ColumnsOf("Run ID") : cols[i] = <<"1", "x">>
    /\ ~decoded.panic
    /\ decoded.err = NoErr

\* C10 (as claimed): a row with an "OK" status cell and a "Run ID" cell that
\* is not a number fails to decode, wherever the two columns stand in the
\* header (one column of each, and a cell for every header).
C10_AcceptedBadRunIDFails ==
    (/\ call = "problem"
     /\ Len(cols) >= Len(names)
     /\ Cardinality(ColumnsOf("Status")) = 1
     /\ Cardinality(ColumnsOf("Run ID")) = 1
     /\ \A i \in ColumnsOf("Status") : cols[i] = OKText
     /\ \A i \in ColumnsOf("Run ID") : ~Atoi(cols[i]).ok)
    => decoded.err = ErrDecodeRunID

----------------------------------------------------------------------------
(* One stage on its own: Parser.Do with a single emitter, called as GetData *)
(* calls it, on every page of a bounded family                              *)

\* p.HrefEmitter as InitEmitters leaves it
HrefEmitter0 ==
    [originalHref |-> EntryURL, SummaryHref |-> NoURL,
     StandingsHref |-> NoURL, SubmissionsHref |-> NoURL]

\* p.HrefEmitter after Emit on the whole action menu
MenuHrefs == HrefEmit(HrefEmitter0, <<SummaryAnchor, StandingsAnchor, SubmissionsAnchor>>).h

\* GetData about to call Do for a stage: InitEmitters(uri) has run, the
\* emitters of the later stages are empty
StageInit(stage, h) ==
    /\ DecodeIdle
    /\ pc = stage
    /\ cancelled = FALSE
    /\ cancelAt = 0
    /\ req = <<>>
    /\ fetchLog = <<>>
    /\ he = h
    /\ pe = [Problems |-> <<>>, SummaryTable |-> <<>>]
    /\ se = [Submissions |-> <<>>]
    /\ sd = [originalHref |-> EntryURL, StandingsPage |-> <<>>]
    /\ page = NoPages
    /\ srcIdx = 1
    /\ ret = NoErr
    /\ out = NoOutput

\* the data rows a Summary page is made of: an accepted problem, one that is
\* not accepted, accepted ones whose run id is not a number or is empty, and
\* a row that has fewer cells than the header
ProblemRowSet ==
    { ProblemRow(<<"A">>, <<"Sum">>, OKText, <<"1", "2">>),
      ProblemRow(<<"B">>, <<"Max">>, WAText, <<"1", "x">>),
      ProblemRow(<<"C">>, <<"Min">>, OKText, <<"1", "x">>),
      ProblemRow(<<"D">>, <<"Gcd">>, OKText, Empty),
      [cols |-> << <<"A">> >>] }

\* the orders of the columns of a Summary table: the judge's, and one with
\* the run id to the left of the status
SummaryHeaders ==
    { ProblemsHeader,
      <<"Short name", "Run ID", "Long name", "Status">> }

\* the cells of a row laid out under the header hdr
InOrder(hdr, row) ==
    [cols |-> [c \in 1..Len(row.cols) |->
                 row.cols[CHOOSE k \in 1..Len(ProblemsHeader) : ProblemsHeader[k] = hdr[c]]]]

ProblemPages ==
    {TablePage(200, hdr, [i \in 1..Len(rows) |-> InOrder(hdr, rows[i])]) :
        hdr \in SummaryHeaders, rows \in SeqsUpTo(ProblemRowSet, MaxProblemRows)}

InitProblems == StageInit("summary", MenuHrefs)

NextProblems ==
    \/ Cancel
    \/ DoSend
    \/ DoFail
    \/ ProblemsEmitterEmit(ProblemPages)

SpecProblems == InitProblems /\ [][NextProblems]_vars

ProbRows == page.summary.rows

\* what decodeProblem returns for data row i of the Summary page
RowDecode(i) == decodeProblem(page.summary.names, ProbRows[i].cols)

FailedRows == {i \in 1..Len(ProbRows) : RowDecode(i).err # NoErr}

\* C11: once ProblemsEmitter.Emit has run on a page, pe.Problems holds
\* exactly the records of the rows before the first row that fails to
\* decode, in row order (all the rows when none fails), and the stage has
\* failed with that row's decode error: no later row was decoded or
\* appended.  (decodeSubmission never returns an error, so no row of the
\* Submissions table can fail to decode.)
C11_FirstFailedRowHalts ==
    (page.summary # NoPage /\ pc # "panic") =>
        LET n == IF FailedRows = {} THEN Len(ProbRows) ELSE Min(FailedRows) - 1 IN
        /\ Len(pe.Problems) = n
        /\ \A m \in 1..n : pe.Problems[m] = RowDecode(m).res
        /\ (FailedRows # {} =>
               /\ pc = "failed"
               /\ ret = RowDecode(Min(FailedRows)).err
               /\ fetchLog[Len(fetchLog)].stage = "summary")
        /\ (FailedRows = {} =>
               \/ pc = NextStage("summary") /\ ret = NoErr
               \/ fetchLog[Len(fetchLog)].stage = NextStage("summary"))

\* three rows, the second one failing and the third one decodable: one
\* record was kept and the stage ended with the decode error
C11_Witness ==
    /\ page.summary # NoPage
    /\ Len(ProbRows) = 3
    /\ FailedRows = {2}
    /\ ~RowDecode(3).panic
    /\ Len(pe.Problems) = 1
    /\ pe.Problems[1].ID = <<"A">>
    /\ pc = "failed"
    /\ ret = ErrDecodeRunID

----------------------------------------------------------------------------
(* HrefEmitter.Emit on its own *)

\* the anchors an action menu is made of: the three links, Submissions links
\* whose query is in another order, already has all_runs (twice), or cannot
\* be unescaped, a "Summary" anchor without href, a "Standings" link
\* url.Parse rejects, and a link whose text holds "Submissions" among other
\* words
MenuAnchors ==
    { SummaryAnchor, StandingsAnchor, SubmissionsAnchor,
      Anchor(<<"Submissions">>, Href(Rel("submissions.cgi", <<<<"SID", "X">>, <<"a", "b">>>>))),
      Anchor(<<"Submissions">>,
             Href(Rel("submissions.cgi",
                      <<<<"all_runs", "0">>, <<"a", "b">>, <<"all_runs", "2">>>>))),
      Anchor(<<"Submissions">>, Href(Rel("submissions.cgi", <<BadPair>>))),
      AnchorNoHref(<<"Summary">>),
      Anchor(<<"Standings">>, BadHref),
      Anchor(<<"All", "Submissions">>, Href(Rel("history.cgi", <<<<"SID", "X">>>>))) }

MenuPages == {AnchorPage(200, anchors) : anchors \in SeqsUpTo(MenuAnchors, MaxAnchors)}

InitHref == StageInit("entry", HrefEmitter0)

NextHref ==
    \/ Cancel
    \/ DoSend
    \/ DoFail
    \/ HrefEmitterEmit(MenuPages)

SpecHref == InitHref /\ [][NextHref]_vars

MenuLabels == << <<"Summary">>, <<"Standings">>, <<"Submissions">> >>

Menu == page.entry.anchors

\* HrefEmitter.Emit has run; it returned an error / it returned nil
EntryRan == page.entry # NoPage
EntryFailed == EntryRan /\ pc = "failed" /\ fetchLog[Len(fetchLog)].stage = "entry"
EntryOK == EntryRan /\ ~EntryFailed

\* the menu has a hyperlink carrying the label
HasLink(label) ==
    \E a \in 1..Len(Menu) : Menu[a].hasHref /\ Contains(Menu[a].text, label)

AbsentLabels == {i \in 1..Len(MenuLabels) : ~HasLink(MenuLabels[i])}

\* C12: after a nil return of HrefEmitter.Emit all three links are set and
\* none of the three hyperlinks was absent.  When the hyperlink of a label
\* is absent Emit returns an error and SubmissionsHref stays unset; a
\* not-found error names the first absent label (Summary, Standings,
\* Submissions in turn), and that is the error returned unless the href of
\* a label looked up before it is rejected by url.Parse.
C12_AllLinksOrError ==
    /\ EntryOK =>
          /\ ~he.SummaryHref.nil /\ ~he.StandingsHref.nil /\ ~he.SubmissionsHref.nil
          /\ AbsentLabels = {}
    /\ (EntryRan /\ AbsentLabels # {}) =>
          LET first == Min(AbsentLabels) IN
          /\ EntryFailed
          /\ he.SubmissionsHref.nil
          /\ (ret.kind = "href not found" => ret = ErrHrefNotFound(MenuLabels[first]))
          /\ ((\A j \in 1..(first - 1) : FindHref(Menu, MenuLabels[j]).href.wf)
                 => ret = ErrHrefNotFound(MenuLabels[first]))
    /\ EntryFailed => he.SubmissionsHref.nil

\* a menu with "Summary" and "Submissions" but no "Standings": the error
\* names "Standings", SummaryHref was stored, SubmissionsHref is unset
C12_Witness ==
    /\ EntryFailed
    /\ AbsentLabels = {2}
    /\ Len(Menu) = 2
    /\ ret = ErrHrefNotFound(<<"Standings">>)
    /\ ~he.SummaryHref.nil
    /\ he.StandingsHref.nil
    /\ he.SubmissionsHref.nil

\* how often the pair kv stands in the query q
PairCount(q, kv) == Cardinality({i \in 1..Len(q) : q[i] = kv})

\* the href attribute of the Submissions hyperlink, as url.Parse reads it
SubmissionsRef == FindHref(Menu, <<"Submissions">>).href.url

\* C13: after a nil return SubmissionsHref is the href of the Submissions
\* link resolved against the entry page's URL, but for its query: every
\* key=value pair of the href's query with a key other than all_runs is in
\* it as often as in the href, whatever their order there, and all_runs is
\* in it once, with the value "1".
C13_SubmissionsLinkAllRuns ==
    EntryOK =>
        LET resolved == ResolveReference(fetchLog[1].url, SubmissionsRef)
            got == he.SubmissionsHref
        IN  /\ [got EXCEPT !.query = <<>>] = [resolved EXCEPT !.query = <<>>]
            /\ got.abs /\ got.host = JudgeHost
            /\ got.path = Front(TeamPath) \o SubmissionsRef.path
            /\ \A kv \in Range(got.query) \cup Range(SubmissionsRef.query)
                         \cup {<<"all_runs", "1">>} :
                  PairCount(got.query, kv) =
                      IF kv[1] = "all_runs" THEN (IF kv[2] = "1" THEN 1 ELSE 0)
                      ELSE PairCount(SubmissionsRef.query, kv)

\* the href submissions.cgi?all_runs=0&a=b&all_runs=2 became
\* /~ejudge/submissions.cgi?a=b&all_runs=1
C13_Witness ==
    /\ EntryOK
    /\ PairCount(SubmissionsRef.query, <<"all_runs", "0">>) = 1
    /\ PairCount(SubmissionsRef.query, <<"all_runs", "2">>) = 1
    /\ he.SubmissionsHref.path = <<"~ejudge", "submissions.cgi">>
    /\ he.SubmissionsHref.query = <<<<"a", "b">>, <<"all_runs", "1">>>>

\* the targets of the hyperlinks whose visible text is exactly the label
ExactTargets(label) ==
    {ResolveReference(fetchLog[1].url, Menu[a].href.url) :
        a \in {b \in 1..Len(Menu) : Menu[b].hasHref /\ Menu[b].href.wf /\ Menu[b].text = label}}

\* C20 (as claimed): each link HrefEmitter.Emit stored is the target of a
\* hyperlink whose visible text is exactly the label (SubmissionsHref but
\* for its query), and on a menu that lacks such a hyperlink for a label
\* Emit has failed.
C20_ExactTextMatch ==
    EntryOK =>
        /\ he.SummaryHref \in ExactTargets(<<"Summary">>)
        /\ he.StandingsHref \in ExactTargets(<<"Standings">>)
        /\ \E u \in ExactTargets(<<"Submissions">>) :
              [u EXCEPT !.query = <<>>] = [he.SubmissionsHref EXCEPT !.query = <<>>]

----------------------------------------------------------------------------
(* StandingsEmitter.Emit on its own *)

\* a menu whose Standings link leads into another directory than the entry page
BoardAnchor ==
    Anchor(<<"Standings">>,
           Href(URL(FALSE, "", FALSE, <<"board", "standings.cgi">>, <<<<"SID", "X">>>>)))

BoardHrefs == HrefEmit(HrefEmitter0, <<SummaryAnchor, BoardAnchor, SubmissionsAnchor>>).h

\* the href attributes of link elements: relative to the document, relative
\* to the host, absolute, and text url.Parse rejects
LinkHrefs ==
    { Href(Rel("style.css", <<>>)),
      Href(URL(FALSE, "", TRUE, <<"css", "main.css">>, <<>>)),
      Href(URL(TRUE, "cdn", TRUE, <<"x.css">>, <<>>)),
      BadHref }

StandingsDocs == {LinkPage(200, links) : links \in SeqsUpTo(LinkHrefs, MaxLinks)}

InitStandings == StageInit("standings", MenuHrefs) \/ StageInit("standings", BoardHrefs)

NextStandings ==
    \/ Cancel
    \/ DoSend
    \/ DoFail
    \/ StandingsEmitterEmit(StandingsDocs)

SpecStandings == InitStandings /\ [][NextStandings]_vars

\* the link[href] attributes of the Standings document as it arrived
Links == page.standings.links

StandingsRan == page.standings # NoPage
StandingsFailed == StandingsRan /\ pc = "failed" /\ fetchLog[Len(fetchLog)].stage = "standings"

\* the URL the Standings document was requested at
StandingsURL == fetchLog[1].url

\* C14 (as claimed): after StandingsEmitter.Emit the href of the first link
\* element is its old value resolved against the URL the Standings document
\* was fetched from.
C14_ResolvedAgainstStandingsURL ==
    (StandingsRan /\ ~StandingsFailed /\ Links # <<>>) =>
        sd.StandingsPage[1] = Href(ResolveReference(StandingsURL, Links[1].url))

\* C19 (as claimed): Emit on a document without link[href] elements returns
\* no error and changes nothing; on a document with several, the href of
\* every element but the first is what it was.
C19_OnlyFirstLinkRewritten ==
    StandingsRan =>
        /\ (Links = <<>> => ~StandingsFailed /\ sd.StandingsPage = Links)
        /\ ~StandingsFailed =>
              /\ Len(sd.StandingsPage) = Len(Links)
              /\ \A i \in 2..Len(Links) : sd.StandingsPage[i] = Links[i]

----------------------------------------------------------------------------
(* Whole runs of GetData, continued *)

\* C15: at every point of a run at most one request is in flight, whichever
\* stage it belongs to, the loop over the sources included: a request that
\* was started and has not returned is the last call of Do so far.
C15_OneFetchInFlight ==
    /\ Len(req) <= 1
    /\ req # <<>> => req[1] = fetchLog[Len(fetchLog)]

\* the second source is being fetched: the six requests before it have all
\* returned
C15_Witness ==
    /\ pc = "sources"
    /\ srcIdx = 2
    /\ Len(fetchLog) = 7
    /\ Len(req) = 1
    /\ req[1].stage = "source"
    /\ ~se.Submissions[1].Source.nil

\* what an error value says: the URL, the stage
NamesURL(e, u) == "url" \in DOMAIN e /\ e.url = u
NamesStage(e, stage) == "stage" \in DOMAIN e /\ e.stage = stage

\* C16 (as claimed): the error GetData returns when a stage fails names the
\* stage and the URL of the last request, whatever the kind of failure.
C16_ErrorNamesStageAndURL ==
    (pc = "failed" /\ fetchLog # <<>>) =>
        LET last == fetchLog[Len(fetchLog)] IN
        /\ NamesURL(ret, last.url)
        /\ NamesStage(ret, last.stage)

\* C17 (as claimed): a response with a non-success status is a failed fetch:
\* no emitter was given the page of one, and no submission's Source is the
\* body of one.
C17_NonSuccessStatusIsFailure ==
    /\ \A stage \in DOMAIN page : page[stage] # NoPage => page[stage].status = 200
    /\ \A m \in 1..Len(se.Submissions) :
          \A resp \in SourceResponses :
              resp.status # 200 => se.Submissions[m].Source # Bytes(resp.body)

----------------------------------------------------------------------------
(* SubmissionsEmitter.Emit on a fresh emitter, continued *)

\* the rows whose problem identifier stands in an earlier row
DuplicateRows == {i \in 1..Len(SubRows) : i \notin FirstRows}

\* the rows before row i are decodable and have a link url.Parse accepts
UsableBefore(i) ==
    \A j \in 1..(i - 1) : RowIsFull(j) /\ RowHasView(j) /\ RowViewHref(j).wf

\* the links of the rows that are the first of their problem
KeptURLs == {RowViewHref(k).url : k \in {j \in FirstRows : RowHasView(j)}}

\* C18: a row is dropped as a duplicate only after its "View" link was
\* looked up.  When the pass reaches a duplicate row without the link the
\* stage fails with link-not-found, with the submissions retained so far
\* and nothing fetched; the link of a duplicate row that has one is never
\* stored in a submission and never requested.
C18_DuplicateLinkValidated ==
    EmitRan =>
        /\ \A i \in DuplicateRows :
              (RowIsFull(i) /\ ~RowHasView(i) /\ UsableBefore(i)) =>
                  /\ pc = "failed"
                  /\ ret = ErrSourceHref
                  /\ SourceLog = <<>>
                  /\ Len(se.Submissions) = Cardinality({j \in FirstRows : j < i})
                  /\ \A m \in 1..Len(se.Submissions) : se.Submissions[m].Source.nil
        /\ \A i \in DuplicateRows :
              (RowHasView(i) /\ RowViewHref(i).wf /\ RowViewHref(i).url \notin KeptURLs) =>
                  /\ \A m \in 1..Len(SourceLog) : SourceLog[m].url # RowViewHref(i).url
                  /\ \A m \in 1..Len(se.Submissions) :
                        se.Submissions[m].sourceHref # RowViewHref(i).url

\* rows B, C, B with the third row's link absent: both first rows were
\* retained, the stage failed with link-not-found, nothing was fetched
C18_Witness ==
    /\ EmitRan
    /\ Len(SubRows) = 3
    /\ DuplicateRows = {3}
    /\ RowIsFull(3)
    /\ ~RowHasView(3)
    /\ UsableBefore(3)
    /\ Len(se.Submissions) = 2
    /\ pc = "failed"
    /\ ret = ErrSourceHref
    /\ SourceLog = <<>>

----------------------------------------------------------------------------
(* ProblemsEmitter.Emit on its own, continued *)

\* the cell of data row i under the column whose header is the label
CellUnder(i, label) ==
    ProbRows[i].cols[CHOOSE c \in 1..Len(page.summary.names) : page.summary.names[c] = label]

\* C21 (as claimed): when every data row decodes, pe.Problems has one record
\* per data row, in row order, and each field is read from the cell under
\* the column of its label: the identifier, the name, the acceptance flag
\* and, for an accepted row, the run identifier.
C21_OneProblemPerRow ==
    (page.summary # NoPage /\ pc # "panic" /\ FailedRows = {}) =>
        /\ Len(pe.Problems) = Len(ProbRows)
        /\ \A m \in 1..Len(ProbRows) :
              /\ pe.Problems[m].ID = CellUnder(m, "Short name")
              /\ pe.Problems[m].Name = CellUnder(m, "Long name")
              /\ pe.Problems[m].OK = (CellUnder(m, "Status") = OKText)
              /\ (pe.Problems[m].OK /\ Atoi(CellUnder(m, "Run ID")).ok)
                    => pe.Problems[m].RunID = Atoi(CellUnder(m, "Run ID")).val

----------------------------------------------------------------------------
(* The row decoders on their own, continued *)

\* C24 (as claimed): decodeProblem and decodeSubmission complete, with a
\* record or an error value, on every header and every row, also a row
\* with fewer cells than the header has columns: no cell is read that the
\* row does not have.
C24_NoOutOfRangeRead ==
    call # "none" => ~decoded.panic

\* res.OK when the loop reaches column i: the cell of the nearest "Status"
\* column to its left is "OK"
AcceptedAt(i) ==
    \E j \in 1..(i - 1) :
        /\ names[j] = "Status"
        /\ cols[j] = OKText
        /\ \A k \in (j + 1)..(i - 1) : names[k] # "Status"

\* the "Run ID" columns whose cell was handed to strconv.Atoi and rejected
RejectedRunIDs ==
    {i \in ColumnsOf("Run ID") : AcceptedAt(i) /\ ~Atoi(cols[i]).ok}

\* C25 (as claimed): once a "Run ID" cell of an accepted row has failed
\* numeric parsing, decodeProblem returns a non-nil error, whatever columns
\* follow in the header.
C25_RunIDErrorNotMasked ==
    (call = "problem" /\ Len(cols) >= Len(names) /\ RejectedRunIDs # {}) =>
        decoded.err # NoErr

----------------------------------------------------------------------------
(* Whole runs of Parser.Run *)

\* every stage of GetData was given its page and returned nil, and every
\* retained submission's source was fetched
GetDataSucceeded ==
    /\ pc = "done"
    /\ ret = NoErr
    /\ \A i \in 1..Len(StageOrder) : StageDone(StageOrder[i])
    /\ Len(SourceLog) = Len(se.Submissions)
    /\ \A m \in 1..Len(se.Submissions) : ~se.Submissions[m].Source.nil

\* C22: WriteData is called only after every stage of GetData has
\* succeeded; in a run that failed at a stage, or whose context was
\* cancelled during a fetch, it was not called and no file was written.
C22_WriteDataOnlyAfterSuccess ==
    /\ out.called => GetDataSucceeded /\ cancelAt = 0
    /\ (pc \in {"failed", "panic"} \/ cancelAt > 0) => out = NoOutput
    /\ ~out.called => out.files = <<>>

\* a run that went through every stage, fetched two sources and wrote the
\* standings and both source files
C22_Witness ==
    /\ out.called
    /\ out.err = NoErr
    /\ Len(se.Submissions) = 2
    /\ Len(out.files) = 3
    /\ out.files[1].path = StandingsPath

\* the submissions whose problem identifier is no Problem's ID
Unjoined == {m \in 1..Len(se.Submissions) : ~HasProblem(se.Submissions[m].ProblemID)}

\* the path of the source file of submission m
SourcePath(m) == <<se.Submissions[m].ProblemID, fileName(se.Submissions[m].Language).name>>

FilePaths == {out.files[i].path : i \in 1..Len(out.files)}

\* C23: when a submission has no problem of its identifier, WriteData
\* returns an error and writes no source file for the first such
\* submission or any later one.  Unless a call to the file system failed
\* before the loop reached it, the error is problem-not-found for the first
\* such submission, and the files written before it stay: the standings
\* and the source file of every earlier submission, in list order.
C23_JoinByIdentifier ==
    (out.called /\ Unjoined # {}) =>
        LET first == Min(Unjoined) IN
        /\ out.err # NoErr
        /\ \A m \in first..Len(se.Submissions) : SourcePath(m) \notin FilePaths
        /\ (out.err.kind = "problem not found") =>
              /\ out.err = ErrProblemNotFound(se.Submissions[first].ProblemID)
              /\ Len(out.files) = first
              /\ out.files[1].path = StandingsPath
              /\ \A m \in 1..(first - 1) :
                    out.files[m + 1] = File(SourcePath(m), se.Submissions[m].Source)
        /\ (out.err.kind \notin {"stat", "output directory exists", "output path is file",
                                  "mkdir", "standings", "generate standings",
                                  "create problem dir", "write file"})
              => out.err.kind = "problem not found"

\* submissions A, C, B with problems A and B: the source of A was written,
\* the error names C, and nothing was written for B
C23_Witness ==
    /\ out.called
    /\ Len(se.Submissions) = 3
    /\ Unjoined = {2}
    /\ out.err = ErrProblemNotFound(<<"C">>)
    /\ Len(out.files) = 2
    /\ out.files[2].path = <<<<"A">>, "main.cpp">>
    /\ SourcePath(3) \notin FilePaths

\* a step of GetData: a request is started or returns
GetDataStep ==
    \/ loginContestSend
    \/ loginContestRecv
    \/ DoSend
    \/ DoFail
    \/ HrefEmitterEmit(EntryPages)
    \/ ProblemsEmitterEmit(SummaryPages)
    \/ StandingsEmitterEmit(StandingsPages)
    \/ SubmissionsEmit(RunSubmissionPages)
    \/ fetchSourceSend
    \/ fetchSourceRecv

\* the place of a request's stage in the order of the pipeline
StageRank(stage) ==
    IF stage = "source" THEN Len(StageOrder) + 1
    ELSE CHOOSE i \in 1..Len(StageOrder) : StageOrder[i] = stage

\* C26 (as claimed): a run in which every fetch returns goes on until it
\* is Done or Failed: a state from which GetData can take no further step
\* is one of the two.  At most five stage requests and one request per
\* retained submission are made, none of them twice, and the requests never
\* go back to an earlier stage: the sources are requested after the
\* Submissions page was decoded.
C26_TerminatesDoneOrFailed ==
    /\ ~(ENABLED GetDataStep) => pc \in {"done", "failed"}
    /\ Len(fetchLog) <= Len(StageOrder) + Len(se.Submissions)
    /\ Len(SourceLog) <= Len(se.Submissions)
    /\ \A i, j \in 1..Len(fetchLog) :
          i < j =>
              /\ fetchLog[i] # fetchLog[j]
              /\ StageRank(fetchLog[i].stage) <= StageRank(fetchLog[j].stage)
    /\ SourceLog # <<>> => page.submissions # NoPage

====
